---------------------------- MODULE Spec2Model ----------------------------
(***************************************************************************)
(* Codevault: the snippet store (data/codevault.json) and the operations   *)
(* of src/main.rs that read and rewrite it: capture, edit, delete, export. *)
(* Strings are sequences of one-character strings, so that trim,           *)
(* to_lowercase, contains and parse::<u32> are computed as the code        *)
(* computes them.  An Option is a sequence of length 0 (None) or 1 (Some). *)
(***************************************************************************)
EXTENDS Integers, Sequences, FiniteSets, TLC

VARIABLES
    file,               \* the content of DATA_FILE: [kind, snippets]
    clock,              \* Local::now(), advanced by every capture
    dirs,               \* the directories that exist (export destinations)
    files,              \* the exported files: <<filename, content>>
    pc,                 \* position of the running invocation ("idle": none)
    snippets,           \* local `snippets` of edit_snippet / delete_snippet
    matching_snippets,  \* local `matching_snippets` of edit_snippet
    snippet_to_edit,    \* local `snippet_to_edit` of edit_snippet (Option)
    ids,                \* argument `ids` of the running or last delete_snippet
    filtered_snippets,  \* local `filtered_snippets` of export_snippets / view_snippets
    export_dir,         \* local `export_dir` of export_snippets
    line,               \* the last line read from stdin by this invocation
    before,             \* the content of DATA_FILE when the invocation began
    last,               \* what the last invocation did and returned
    procs               \* capture invocations running as processes of their
                        \* own, side by side: the position and locals of each

vars == <<file, clock, dirs, files, pc, snippets, matching_snippets,
          snippet_to_edit, ids, filtered_snippets, export_dir, line,
          before, last, procs>>

(* Bounds of the model *)
MaxLen == 2
MaxCaptures == 3

None == <<>>
Some(x) == <<x>>

(***************************************************************************)
(* Strings                                                                 *)
(***************************************************************************)
Whitespace == {" ", "\n", "\t", "\r"}
Digits == {"0", "1", "2", "3", "4", "5", "6", "7", "8", "9"}

DigitVal(c) ==
    CASE c = "0" -> 0 [] c = "1" -> 1 [] c = "2" -> 2 [] c = "3" -> 3
      [] c = "4" -> 4 [] c = "5" -> 5 [] c = "6" -> 6 [] c = "7" -> 7
      [] c = "8" -> 8 [] OTHER -> 9

\* char::to_lowercase on the ASCII letters
LowerChar(c) ==
    CASE c = "A" -> "a" [] c = "B" -> "b" [] c = "C" -> "c" [] c = "D" -> "d"
      [] c = "E" -> "e" [] c = "F" -> "f" [] c = "G" -> "g" [] c = "H" -> "h"
      [] c = "I" -> "i" [] c = "J" -> "j" [] c = "K" -> "k" [] c = "L" -> "l"
      [] c = "M" -> "m" [] c = "N" -> "n" [] c = "O" -> "o" [] c = "P" -> "p"
      [] c = "Q" -> "q" [] c = "R" -> "r" [] c = "S" -> "s" [] c = "T" -> "t"
      [] c = "U" -> "u" [] c = "V" -> "v" [] c = "W" -> "w" [] c = "X" -> "x"
      [] c = "Y" -> "y" [] c = "Z" -> "z"
      [] OTHER -> c

to_lowercase(s) == [i \in 1..Len(s) |-> LowerChar(s[i])]

RECURSIVE trim_start(_)
trim_start(s) ==
    IF s # <<>> /\ Head(s) \in Whitespace THEN trim_start(Tail(s)) ELSE s

RECURSIVE trim_end(_)
trim_end(s) ==
    IF s # <<>> /\ s[Len(s)] \in Whitespace
    THEN trim_end(SubSeq(s, 1, Len(s) - 1)) ELSE s

trim(s) == trim_end(trim_start(s))

\* str::contains: the needle occurs as a contiguous substring
contains(hay, needle) ==
    \E i \in 1..(Len(hay) - Len(needle) + 1) :
        SubSeq(hay, i, i + Len(needle) - 1) = needle

RECURSIVE DigitsValue(_)
DigitsValue(s) ==
    IF s = <<>> THEN 0
    ELSE 10 * DigitsValue(SubSeq(s, 1, Len(s) - 1)) + DigitVal(s[Len(s)])

RECURSIVE strip_zeros(_)
strip_zeros(s) == IF s # <<>> /\ Head(s) = "0" THEN strip_zeros(Tail(s)) ELSE s

\* every decimal numeral of at most this many significant digits is a u32
U32SafeDigits == 9

\* str::parse::<u32>: an optional '+', then one or more digits, no overflow.
\* Ok(n) is Some(n), Err is None.  The numerals of ten significant digits,
\* which are beyond the integers of the model, are taken as overflowing.
parse_u32(s) ==
    LET body == IF s # <<>> /\ Head(s) = "+" THEN Tail(s) ELSE s
    IN  IF body # <<>> /\ (\A i \in 1..Len(body) : body[i] \in Digits)
           /\ Len(strip_zeros(body)) <= U32SafeDigits
        THEN Some(DigitsValue(body))
        ELSE None

(***************************************************************************)
(* Vec<Snippet>                                                            *)
(***************************************************************************)
Snippet(tag, description, code, timestamp, language, id) ==
    [tag |-> tag, description |-> description, code |-> code,
     timestamp |-> timestamp, language |-> language, id |-> id]

Range(s) == {s[i] : i \in 1..Len(s)}

IdsOf(v) == [i \in 1..Len(v) |-> v[i].id]

\* iter().position(|s| s.id == id): the first index, 0 for None
position(v, id) ==
    IF \E i \in 1..Len(v) : v[i].id = id
    THEN CHOOSE i \in 1..Len(v) :
            v[i].id = id /\ \A j \in 1..(i - 1) : v[j].id # id
    ELSE 0

\* Vec::remove(index)
remove(v, index) == SubSeq(v, 1, index - 1) \o SubSeq(v, index + 1, Len(v))

Max(S) == CHOOSE m \in S : \A x \in S : x <= m

(***************************************************************************)
(* The data file                                                           *)
(***************************************************************************)
Absent == [kind |-> "absent", snippets |-> <<>>]
Corrupt == [kind |-> "corrupt", snippets |-> <<>>]
Stored(v) == [kind |-> "ok", snippets |-> v]

\* a plausible slip: a file that cannot be opened reads as an empty collection
load_snippets_or_empty(f) ==
    IF f.kind # "corrupt" THEN [ok |-> TRUE, snippets |-> f.snippets]
    ELSE [ok |-> FALSE, snippets |-> <<>>]

\* load_snippets: Err when the file cannot be opened or parsed
load_snippets(f) ==
    IF f.kind = "ok" THEN [ok |-> TRUE, snippets |-> f.snippets]
    ELSE [ok |-> FALSE, snippets |-> <<>>]

\* a plausible slip: the number of snippets instead of the maximum ID
generate_unique_id_count(f) ==
    IF f.kind = "corrupt" THEN 1 ELSE Len(f.snippets) + 1

\* generate_unique_id: 1 when the file does not parse, else max_id + 1 with
\* max_id = 0 when the file cannot be opened or holds no snippet
generate_unique_id(f) ==
    IF f.kind = "corrupt" THEN 1
    ELSE LET max_id == IF f.kind = "ok" /\ f.snippets # <<>>
                       THEN Max(Range(IdsOf(f.snippets))) ELSE 0
         IN  max_id + 1

\* the JSON values serde_json writes for the fields of a Snippet
JsonNull == <<"null">>
JsonString(s) == <<"string", s>>
JsonNumber(n) == <<"number", n>>

\* #[derive(Serialize)]: an object with the six fields, None as null
to_json(s) ==
    [tag |-> JsonString(s.tag),
     description |-> IF s.description = None THEN JsonNull
                     ELSE JsonString(s.description[1]),
     code |-> JsonString(s.code),
     timestamp |-> JsonString(s.timestamp),
     language |-> IF s.language = None THEN JsonNull
                  ELSE JsonString(s.language[1]),
     id |-> JsonNumber(s.id)]

\* #[derive(Deserialize)]: null is None, a string is Some
from_json(j) ==
    Snippet(j.tag[2],
            IF j.description = JsonNull THEN None ELSE Some(j.description[2]),
            j.code[2], j.timestamp[2],
            IF j.language = JsonNull THEN None ELSE Some(j.language[2]),
            j.id[2])

\* serde_json::to_writer_pretty(&mut file, &snippets): an array of objects
to_writer_pretty(v) == [i \in 1..Len(v) |-> to_json(v[i])]

\* serde_json::from_reader(file) on an array of objects
from_reader(json) == [i \in 1..Len(json) |-> from_json(json[i])]

\* save_snippets_for_edit: the file is truncated and rewritten as a whole;
\* its content is kept as the collection that it deserializes to
save_snippets_for_edit(v) == Stored(from_reader(to_writer_pretty(v)))

\* a plausible slip: the new snippet is put in front of the others
save_snippet_front(snippet, f) ==
    IF f.kind = "corrupt" THEN [ok |-> FALSE, file |-> f]
    ELSE [ok |-> TRUE,
          file |-> Stored(from_reader(to_writer_pretty(<<snippet>> \o f.snippets)))]

\* a plausible slip: a file that does not parse is taken as an empty
\* collection, like a file that cannot be opened
save_snippet_overwrites(snippet, f) ==
    [ok |-> TRUE,
     file |-> Stored(from_reader(to_writer_pretty(Append(f.snippets, snippet))))]

\* save_snippet: [ok, file]
save_snippet(snippet, f) ==
    IF f.kind = "corrupt" THEN [ok |-> FALSE, file |-> f]
    ELSE [ok |-> TRUE,
          file |-> Stored(from_reader(to_writer_pretty(Append(f.snippets, snippet))))]

\* export_snippets: the extension of a snippet's language (Option), "txt" by default
extension(language) ==
    IF language = None THEN "txt"
    ELSE LET l == language[1] IN
    CASE l = <<"A", "p", "p", "l", "e", "S", "c", "r", "i", "p", "t">> -> "applescript"
      [] l = <<"A", "S", "P">> -> "asp"
      [] l = <<"B", "a", "t", "c", "h", " ", "F", "i", "l", "e">> -> "bat"
      [] l = <<"B", "i", "b", "T", "e", "X">> -> "bib"
      [] l = <<"B", "o", "u", "r", "n", "e", " ", "A", "g", "a", "i", "n", " ", "S", "h", "e", "l", "l", " ", "(", "b", "a", "s", "h", ")">> -> "sh"
      [] l = <<"C">> -> "c"
      [] l = <<"C", "#">> -> "cs"
      [] l = <<"C", "+", "+">> -> "cpp"
      [] l = <<"C", "a", "r", "g", "o", " ", "B", "u", "i", "l", "d", " ", "R", "e", "s", "u", "l", "t", "s">> -> "log"
      [] l = <<"C", "l", "o", "j", "u", "r", "e">> -> "clj"
      [] l = <<"c", "o", "m", "m", "a", "n", "d", "s", "-", "b", "u", "i", "l", "t", "i", "n", "-", "s", "h", "e", "l", "l", "-", "b", "a", "s", "h">> -> "sh"
      [] l = <<"C", "S", "S">> -> "css"
      [] l = <<"D">> -> "d"
      [] l = <<"D", "i", "f", "f">> -> "diff"
      [] l = <<"E", "r", "l", "a", "n", "g">> -> "erl"
      [] l = <<"G", "o">> -> "go"
      [] l = <<"G", "r", "a", "p", "h", "v", "i", "z", " ", "(", "D", "O", "T", ")">> -> "dot"
      [] l = <<"G", "r", "o", "o", "v", "y">> -> "groovy"
      [] l = <<"H", "a", "m", "l">> -> "haml"
      [] l = <<"H", "a", "s", "k", "e", "l", "l">> -> "hs"
      [] l = <<"H", "T", "M", "L">> -> "html"
      [] l = <<"J", "a", "v", "a">> -> "java"
      [] l = <<"J", "a", "v", "a", " ", "P", "r", "o", "p", "e", "r", "t", "i", "e", "s">> -> "properties"
      [] l = <<"J", "a", "v", "a", "S", "c", "r", "i", "p", "t">> -> "js"
      [] l = <<"J", "S", "O", "N">> -> "json"
      [] l = <<"L", "a", "T", "e", "X">> -> "tex"
      [] l = <<"L", "a", "T", "e", "X", " ", "L", "o", "g">> -> "log"
      [] l = <<"L", "i", "s", "p">> -> "lisp"
      [] l = <<"L", "u", "a">> -> "lua"
      [] l = <<"M", "a", "k", "e", " ", "O", "u", "t", "p", "u", "t">> -> "mak"
      [] l = <<"M", "a", "k", "e", "f", "i", "l", "e">> -> "mak"
      [] l = <<"M", "a", "r", "k", "d", "o", "w", "n">> -> "md"
      [] l = <<"M", "A", "T", "L", "A", "B">> -> "m"
      [] l = <<"M", "u", "l", "t", "i", "M", "a", "r", "k", "d", "o", "w", "n">> -> "mmd"
      [] l = <<"N", "A", "n", "t", " ", "B", "u", "i", "l", "d", " ", "F", "i", "l", "e">> -> "build"
      [] l = <<"O", "b", "j", "e", "c", "t", "i", "v", "e", "-", "C">> -> "m"
      [] l = <<"O", "b", "j", "e", "c", "t", "i", "v", "e", "-", "C", "+", "+">> -> "mm"
      [] l = <<"O", "C", "a", "m", "l">> -> "ml"
      [] l = <<"O", "C", "a", "m", "l", "l", "e", "x">> -> "mll"
      [] l = <<"O", "C", "a", "m", "l", "y", "a", "c", "c">> -> "mly"
      [] l = <<"P", "a", "s", "c", "a", "l">> -> "pas"
      [] l = <<"P", "e", "r", "l">> -> "pl"
      [] l = <<"P", "H", "P">> -> "php"
      [] l = <<"P", "y", "t", "h", "o", "n">> -> "py"
      [] l = <<"R">> -> "R"
      [] l = <<"R", " ", "C", "o", "n", "s", "o", "l", "e">> -> "Rout"
      [] l = <<"R", "d", " ", "(", "R", " ", "D", "o", "c", "u", "m", "e", "n", "t", "a", "t", "i", "o", "n", ")">> -> "Rd"
      [] l = <<"R", "e", "g", "u", "l", "a", "r", " ", "E", "x", "p", "r", "e", "s", "s", "i", "o", "n">> -> "regex"
      [] l = <<"R", "e", "g", "u", "l", "a", "r", " ", "E", "x", "p", "r", "e", "s", "s", "i", "o", "n", "s", " ", "(", "J", "a", "v", "a", "s", "c", "r", "i", "p", "t", ")">> -> "js"
      [] l = <<"R", "e", "g", "u", "l", "a", "r", " ", "E", "x", "p", "r", "e", "s", "s", "i", "o", "n", "s", " ", "(", "P", "y", "t", "h", "o", "n", ")">> -> "py"
      [] l = <<"r", "e", "S", "t", "r", "u", "c", "t", "u", "r", "e", "d", "T", "e", "x", "t">> -> "rst"
      [] l = <<"R", "u", "b", "y">> -> "rb"
      [] l = <<"R", "u", "b", "y", " ", "o", "n", " ", "R", "a", "i", "l", "s">> -> "rb"
      [] l = <<"R", "u", "s", "t">> -> "rs"
      [] l = <<"S", "c", "a", "l", "a">> -> "scala"
      [] l = <<"S", "h", "e", "l", "l", "-", "U", "n", "i", "x", "-", "G", "e", "n", "e", "r", "i", "c">> -> "sh"
      [] l = <<"S", "Q", "L">> -> "sql"
      [] l = <<"T", "c", "l">> -> "tcl"
      [] l = <<"T", "e", "X">> -> "tex"
      [] l = <<"T", "e", "x", "t", "i", "l", "e">> -> "textile"
      [] l = <<"X", "M", "L">> -> "xml"
      [] l = <<"Y", "A", "M", "L">> -> "yaml"
      [] OTHER -> "txt"


(***************************************************************************)
(* Inputs: command-line arguments and the lines the operator types         *)
(***************************************************************************)
NL == "\n"
Python == <<"P", "y", "t", "h", "o", "n">>

\* capture -t <tag> -d <description> -l <language>, code read from stdin
CaptureTags == {<<"a">>, <<"A", "b">>}
CaptureDescription == <<"d">>
CaptureLanguage == Python
CaptureCode == <<"x", NL, "y">>

\* every ID a capture can allocate, and one that never exists
IdSpace == 1..(MaxCaptures + 1)

\* delete -i <id>[,<id>]: main parses the list into `ids` (duplicates allowed)
DeleteRequests ==
    {<<i>> : i \in IdSpace}
        \cup {<<1, 2>>, <<2, 1>>, <<1, 1>>, <<1, MaxCaptures + 1>>,
              <<MaxCaptures + 1, 2>>}

\* edit -i <id> / -t <tag>: <<id, tag>>, each an Option
EditTags == {<<"a">>, <<"b">>, <<"z">>}
EditSelectors ==
    {<<Some(i), None>> : i \in IdSpace} \cup {<<None, Some(q)>> : q \in EditTags}
        \cup {<<None, None>>, <<Some(1), Some(<<"z">>)>>,
              <<Some(MaxCaptures + 1), Some(<<"a">>)>>}

\* one line read by read_line: it ends with "\n", except at end of input,
\* where read_line leaves the buffer empty
EndOfInput == <<>>
ConfirmLines == {<<"y", NL>>, <<" ", "Y", " ", NL>>, <<"n", NL>>,
                 <<"y", "e", "s", NL>>, <<NL>>, EndOfInput}
ChoiceLines == {<<"1", NL>>, <<" ", "2", NL>>, <<"+", "3", NL>>, <<"9", NL>>,
                <<"a", NL>>, <<NL>>, EndOfInput}

\* the answers to the three field prompts of edit and the code that follows
EditAnswers ==
    {[new_tag |-> <<NL>>, new_description |-> <<NL>>, new_language |-> <<NL>>,
      new_code |-> <<"z">>],
     [new_tag |-> <<" ", "b", NL>>, new_description |-> <<"e", NL>>,
      new_language |-> <<"R", NL>>, new_code |-> <<>>]}

(***************************************************************************)
(* Results                                                                 *)
(***************************************************************************)
\* what an invocation did: the operation, where it stands ("prompt": at a
\* prompt, "answered": an answer to a prompt was just read, else how it
\* ended), the error it returned, the IDs the error names, the index (in the
\* collection loaded) of the snippet an edit took as its target, the ID
\* allocated, edited or asked for, the files an export reported as already
\* exported, and the arguments of a view <<id, tag, language, keyword>> or
\* of an edit <<id, tag>>, and the lines print_snippet or
\* print_snippet_summary wrote for the snippet at `index` of what view returned,
\* and the answers an edit read at its field prompts
Result(op, status, err, missing, index, id) ==
    [op |-> op, status |-> status, err |-> err, missing |-> missing,
     index |-> index, id |-> id, skipped |-> <<>>, args |-> <<>>,
     all_lines |-> <<>>, out |-> <<>>, answers |-> None]

NoResult == Result("none", "none", "none", <<>>, 0, 0)

\* the locals of a delete that has ended: `ids` stays for the record
DeleteEnds ==
    /\ snippets' = <<>>
    /\ matching_snippets' = <<>>
    /\ snippet_to_edit' = None
    /\ filtered_snippets' = <<>>
    /\ export_dir' = "none"

\* the locals of any other invocation that has ended
NoLocals == DeleteEnds /\ ids' = <<>>

\* a new process: nothing read yet, the state of the disk is what it finds
Begin ==
    /\ pc = "idle"
    /\ before' = file

Init ==
    /\ file \in {Absent, Stored(<<>>), Corrupt}
    /\ clock = 0
    /\ dirs = {}
    /\ files = {}
    /\ pc = "idle"
    /\ snippets = <<>>
    /\ matching_snippets = <<>>
    /\ snippet_to_edit = None
    /\ ids = <<>>
    /\ filtered_snippets = <<>>
    /\ export_dir = "none"
    /\ line = <<>>
    /\ before = file
    /\ last = NoResult
    /\ procs = <<>>

(***************************************************************************)
(* capture (main, Commands::Capture)                                       *)
(***************************************************************************)
Capture(tag, description, language, code) ==
    /\ UNCHANGED procs
    /\ Begin
    /\ clock < MaxCaptures
    /\ Len(file.snippets) < MaxLen
    /\ LET new_snippet == Snippet(tag, Some(description), code, clock + 1,
                                  Some(language), generate_unique_id(file))
           saved == save_snippet(new_snippet, file)
       IN  /\ file' = saved.file
           /\ last' = Result("capture", IF saved.ok THEN "ok" ELSE "err",
                             IF saved.ok THEN "none" ELSE "deserializing",
                             <<>>, 0, new_snippet.id)
    /\ clock' = clock + 1
    /\ line' = <<>>
    /\ pc' = "idle"
    /\ NoLocals
    /\ UNCHANGED <<dirs, files>>

(***************************************************************************)
(* delete_snippet                                                          *)
(***************************************************************************)
\* a plausible slip: the check stops at the first missing ID
non_existent_first(v, id_list) ==
    LET all == SelectSeq(id_list, LAMBDA id : ~ \E i \in 1..Len(v) : v[i].id = id)
    IN  IF all = <<>> THEN <<>> ELSE <<all[1]>>

\* the IDs of `id_list` that no snippet of v has, in the order requested
non_existent_ids(v, id_list) ==
    SelectSeq(id_list, LAMBDA id : ~ \E i \in 1..Len(v) : v[i].id = id)

\* the removal loop: for every requested ID, the first snippet holding it
RECURSIVE remove_ids(_, _)
remove_ids(v, id_list) ==
    IF id_list = <<>> THEN [snippets |-> v, deleted_count |-> 0]
    ELSE LET index == position(v, Head(id_list))
             rest == remove_ids(IF index # 0 THEN remove(v, index) ELSE v,
                                Tail(id_list))
         IN  [snippets |-> rest.snippets,
              deleted_count |-> rest.deleted_count + (IF index # 0 THEN 1 ELSE 0)]

\* a plausible slip: every answer but "n" is taken as a yes
confirmed_unless_n(input) == to_lowercase(trim(input)) # <<"n">>

\* the answer to a (y/N) prompt: input.trim().to_lowercase() == "y"
confirmed(input) == to_lowercase(trim(input)) = <<"y">>

\* delete_snippet up to its confirmation prompt
DeleteStart(id_list) ==
    /\ UNCHANGED procs
    /\ Begin
    /\ line' = <<>>
    /\ ids' = id_list
    /\ UNCHANGED <<file, clock, dirs, files>>
    /\ LET loaded == load_snippets(file)
           missing == non_existent_ids(loaded.snippets, id_list)
       IN  IF ~ loaded.ok
           THEN /\ last' = Result("delete", "err", "load", <<>>, 0, 0)
                /\ pc' = "idle"
                /\ DeleteEnds
           ELSE IF missing # <<>>
           THEN /\ last' = Result("delete", "err", "not_found", missing, 0, 0)
                /\ pc' = "idle"
                /\ DeleteEnds
           ELSE /\ last' = Result("delete", "prompt", "none", <<>>, 0, 0)
                /\ pc' = "delete_confirm"
                /\ snippets' = loaded.snippets
                /\ UNCHANGED <<matching_snippets, snippet_to_edit,
                               filtered_snippets, export_dir>>

\* delete_snippet from the answer to its prompt on
DeleteConfirm(input) ==
    /\ UNCHANGED procs
    /\ pc = "delete_confirm"
    /\ line' = input
    /\ pc' = "idle"
    /\ DeleteEnds
    /\ UNCHANGED <<clock, dirs, files, ids, before>>
    /\ IF ~ confirmed(input)
       THEN /\ last' = Result("delete", "cancelled", "none", <<>>, 0, 0)
            /\ UNCHANGED file
       ELSE LET removed == remove_ids(snippets, ids)
            IN  /\ file' = IF removed.deleted_count > 0
                           THEN save_snippets_for_edit(removed.snippets)
                           ELSE file
                /\ last' = Result("delete", "ok", "none", <<>>, 0, 0)

(***************************************************************************)
(* edit_snippet                                                            *)
(***************************************************************************)
\* the indices of the snippets whose tag contains the query, ignoring case
matching_indices(v, snippet_tag) ==
    {i \in 1..Len(v) :
        contains(to_lowercase(v[i].tag), to_lowercase(snippet_tag))}

\* matching_snippets, in the order of the collection
matching(v, snippet_tag) ==
    SelectSeq(v, LAMBDA s :
        contains(to_lowercase(s.tag), to_lowercase(snippet_tag)))

\* a plausible slip: an answer that is no listed ID takes the first candidate
choose_first(input, candidates) ==
    LET parsed == parse_u32(trim(input))
    IN  IF parsed # None /\ parsed[1] \in Range(IdsOf(candidates))
        THEN parsed ELSE Some(candidates[1].id)

\* the disambiguation answer: Some(chosen_id) when it parses as a u32 that is
\* the ID of a candidate, None otherwise
choose(input, candidates) ==
    LET parsed == parse_u32(trim(input))
    IN  IF parsed # None /\ parsed[1] \in Range(IdsOf(candidates))
        THEN parsed ELSE None

\* a plausible slip: the edited snippet is given a freshly allocated ID
edited_new_id(s, answers) ==
    [s EXCEPT !.tag = IF trim(answers.new_tag) # <<>>
                      THEN trim(answers.new_tag) ELSE @,
              !.description = IF trim(answers.new_description) # <<>>
                              THEN Some(trim(answers.new_description)) ELSE None,
              !.language = IF trim(answers.new_language) # <<>>
                           THEN Some(trim(answers.new_language)) ELSE None,
              !.code = answers.new_code,
              !.id = generate_unique_id(file)]

\* a plausible slip: the edited snippet is stamped with the time of the edit
edited_new_timestamp(s, answers) ==
    [s EXCEPT !.tag = IF trim(answers.new_tag) # <<>>
                      THEN trim(answers.new_tag) ELSE @,
              !.description = IF trim(answers.new_description) # <<>>
                              THEN Some(trim(answers.new_description)) ELSE None,
              !.language = IF trim(answers.new_language) # <<>>
                           THEN Some(trim(answers.new_language)) ELSE None,
              !.code = answers.new_code,
              !.timestamp = clock + 1]

\* snippet_to_edit after the three field prompts and the code prompt
edited(s, answers) ==
    [s EXCEPT !.tag = IF trim(answers.new_tag) # <<>>
                      THEN trim(answers.new_tag) ELSE @,
              !.description = IF trim(answers.new_description) # <<>>
                              THEN Some(trim(answers.new_description)) ELSE None,
              !.language = IF trim(answers.new_language) # <<>>
                           THEN Some(trim(answers.new_language)) ELSE None,
              !.code = answers.new_code]

\* a plausible slip: the failure to resolve a target is not returned as an error
EditFails_unreported(err, id, tag) ==
    /\ last' = [Result("edit", "ok", err, <<>>, 0, 0) EXCEPT !.args = <<id, tag>>]
    /\ pc' = "idle"
    /\ DeleteEnds

\* return Err(...) while the target is resolved
EditFails(err, id, tag) ==
    /\ last' = [Result("edit", "err", err, <<>>, 0, 0) EXCEPT !.args = <<id, tag>>]
    /\ pc' = "idle"
    /\ DeleteEnds

\* edit_snippet up to its first prompt: the target is resolved from the ID,
\* else from the tag
EditStart(id, tag) ==
    /\ UNCHANGED procs
    /\ Begin
    /\ line' = <<>>
    /\ ids' = <<>>
    /\ UNCHANGED <<file, clock, dirs, files>>
    /\ LET loaded == load_snippets(file)
           v == loaded.snippets
       IN  IF ~ loaded.ok THEN EditFails("load", id, tag)
           ELSE IF id # None
           THEN LET index == position(v, id[1])
                IN  IF index = 0 THEN EditFails("id_not_found", id, tag)
                    ELSE /\ snippet_to_edit' = Some(v[index])
                         /\ snippets' = remove(v, index)
                         /\ pc' = "edit_fields"
                         /\ last' = [Result("edit", "prompt", "none", <<>>,
                                            index, v[index].id)
                                        EXCEPT !.args = <<id, tag>>]
                         /\ UNCHANGED <<matching_snippets, filtered_snippets,
                                        export_dir>>
           ELSE IF tag # None
           THEN LET found == matching(v, tag[1])
                IN  IF found = <<>> THEN EditFails("no_matching_tag", id, tag)
                    ELSE IF Len(found) > 1
                    THEN /\ matching_snippets' = found
                         /\ snippets' = v
                         /\ pc' = "edit_prompt"
                         /\ last' = [Result("edit", "prompt", "none", <<>>, 0, 0)
                                        EXCEPT !.args = <<id, tag>>]
                         /\ UNCHANGED <<snippet_to_edit, filtered_snippets,
                                        export_dir>>
                    ELSE \* matching_snippets[0].clone(): `snippets` keeps it
                         /\ Len(v) < MaxLen
                         /\ snippet_to_edit' = Some(found[1])
                         /\ snippets' = v
                         /\ pc' = "edit_fields"
                         /\ last' = [Result("edit", "prompt", "none", <<>>,
                                 CHOOSE i \in matching_indices(v, tag[1]) : TRUE,
                                 found[1].id)
                                        EXCEPT !.args = <<id, tag>>]
                         /\ UNCHANGED <<matching_snippets, filtered_snippets,
                                        export_dir>>
           ELSE EditFails("missing_selector", id, tag)

\* the disambiguation loop prints its prompt
EditPrompt ==
    /\ UNCHANGED procs
    /\ pc = "edit_prompt"
    /\ pc' = "edit_choose"
    /\ last' = [last EXCEPT !.status = "prompt"]
    /\ UNCHANGED <<file, clock, dirs, files, snippets, matching_snippets,
                   snippet_to_edit, ids, filtered_snippets, export_dir, line,
                   before>>

\* the disambiguation loop reads one answer
EditChoose(input) ==
    /\ UNCHANGED procs
    /\ pc = "edit_choose"
    /\ line' = input
    /\ UNCHANGED <<file, clock, dirs, files, matching_snippets, ids,
                   filtered_snippets, export_dir, before>>
    /\ LET chosen == choose(input, matching_snippets)
       IN  IF chosen # None /\ position(snippets, chosen[1]) # 0
           THEN LET index == position(snippets, chosen[1])
                IN  /\ snippet_to_edit' = Some(snippets[index])
                    /\ snippets' = remove(snippets, index)
                    /\ pc' = "edit_fields"
                    /\ last' = [Result("edit", "answered", "none", <<>>, index,
                                       chosen[1])
                                   EXCEPT !.args = last.args]
           ELSE /\ pc' = "edit_prompt"
                /\ last' = [Result("edit", "answered", "none", <<>>, 0, 0)
                               EXCEPT !.args = last.args]
                /\ UNCHANGED <<snippet_to_edit, snippets>>

\* edit_snippet from its field prompts to the end
EditFields(answers) ==
    /\ UNCHANGED procs
    /\ pc = "edit_fields"
    /\ line' = answers.new_language
    /\ file' = save_snippets_for_edit(
                   Append(snippets, edited(snippet_to_edit[1], answers)))
    /\ last' = [last EXCEPT !.status = "ok", !.answers = Some(answers)]
    /\ pc' = "idle"
    /\ NoLocals
    /\ UNCHANGED <<clock, dirs, files, before>>

(***************************************************************************)
(* export_snippets                                                         *)
(***************************************************************************)
\* str::split(','): the pieces between the commas (at least one piece)
RECURSIVE split(_)
split(s) ==
    IF \E i \in 1..Len(s) : s[i] = ","
    THEN LET i == CHOOSE k \in 1..Len(s) :
                      s[k] = "," /\ \A j \in 1..(k - 1) : s[j] # ","
         IN  <<SubSeq(s, 1, i - 1)>> \o split(SubSeq(s, i + 1, Len(s)))
    ELSE <<s>>

\* the trimmed comma-separated terms of a filter argument
terms(arg) == LET pieces == split(arg)
              IN  [i \in 1..Len(pieces) |-> trim(pieces[i])]

\* some term is a substring, ignoring case, of the snippet's tag
tag_matches(s, arg) ==
    \E i \in 1..Len(terms(arg)) :
        contains(to_lowercase(s.tag), to_lowercase(terms(arg)[i]))

\* a plausible slip: a snippet with no language passes the language filter
language_matches_or_absent(s, arg) ==
    \/ s.language = None
    \/ \E i \in 1..Len(terms(arg)) :
           contains(to_lowercase(s.language[1]), to_lowercase(terms(arg)[i]))

\* some term is a substring, ignoring case, of the snippet's language
language_matches(s, arg) ==
    \E i \in 1..Len(terms(arg)) :
        /\ s.language # None
        /\ contains(to_lowercase(s.language[1]), to_lowercase(terms(arg)[i]))

\* the three filters of export_snippets, applied one after the other
export_filter(v, id, tag, language) ==
    LET by_id == IF id # None
                 THEN SelectSeq(v, LAMBDA s : s.id = id[1]) ELSE v
        by_tag == IF tag # None
                  THEN SelectSeq(by_id, LAMBDA s : tag_matches(s, tag[1]))
                  ELSE by_id
    IN  IF language # None
        THEN SelectSeq(by_tag, LAMBDA s : language_matches(s, language[1]))
        ELSE by_tag

DefaultExportDir == "snippet_exports"

\* format!("{}/{}.{}", export_dir, snippet.id, extension)
filename(dir, s) == <<dir, s.id, extension(s.language)>>

\* a plausible slip: no look at what exists, File::create truncates the file
RECURSIVE export_loop_overwrites(_, _, _, _)
export_loop_overwrites(todo, dir, existing, create_fails) ==
    IF todo = <<>> THEN [ok |-> TRUE, files |-> existing, skipped |-> <<>>]
    ELSE LET name == filename(dir, Head(todo))
         IN  IF create_fails = 1
             THEN [ok |-> FALSE, files |-> existing, skipped |-> <<>>]
             ELSE export_loop_overwrites(Tail(todo), dir,
                      {f \in existing : f[1] # name}
                          \cup {<<name, Head(todo).code>>},
                      create_fails - 1)

\* the export loop over `todo`, given the files that exist: a snippet whose
\* file exists is reported and skipped; File::create fails for the snippet at
\* index create_fails (0: never), which ends the loop
\* [ok, files, skipped]
RECURSIVE export_loop(_, _, _, _)
export_loop(todo, dir, existing, create_fails) ==
    IF todo = <<>> THEN [ok |-> TRUE, files |-> existing, skipped |-> <<>>]
    ELSE LET name == filename(dir, Head(todo))
         IN  IF \E f \in existing : f[1] = name
             THEN LET rest == export_loop(Tail(todo), dir, existing,
                                          create_fails - 1)
                  IN  [rest EXCEPT !.skipped = <<name>> \o @]
             ELSE IF create_fails = 1
             THEN [ok |-> FALSE, files |-> existing, skipped |-> <<>>]
             ELSE LET rest == export_loop(Tail(todo), dir,
                                  existing \cup {<<name, Head(todo).code>>},
                                  create_fails - 1)
                  IN  rest

\* export_snippets from the creation of the directory on
Export(todo, dir, mkdir_fails, create_fails) ==
    /\ pc' = "idle"
    /\ NoLocals
    /\ UNCHANGED <<file, clock>>
    /\ IF mkdir_fails
       THEN /\ last' = Result("export", "err", "creating_directory", <<>>, 0, 0)
            /\ UNCHANGED <<dirs, files>>
       ELSE LET done == export_loop(todo, dir, files, create_fails)
            IN  /\ dirs' = dirs \cup {dir}
                /\ files' = done.files
                /\ last' = [Result("export", IF done.ok THEN "ok" ELSE "err",
                                   IF done.ok THEN "none" ELSE "creating_file",
                                   <<>>, 0, 0)
                               EXCEPT !.skipped = done.skipped]

\* export_snippets up to its confirmation prompt, or to the end when at most
\* one snippet is selected
ExportStart(id, tag, language, export_path, mkdir_fails, create_fails) ==
    /\ UNCHANGED procs
    /\ Begin
    /\ line' = <<>>
    /\ ids' = <<>>
    /\ LET loaded == load_snippets(file)
           selected == export_filter(loaded.snippets, id, tag, language)
           dir == IF export_path # None THEN export_path[1] ELSE DefaultExportDir
       IN  IF ~ loaded.ok
           THEN /\ last' = Result("export", "err", "load", <<>>, 0, 0)
                /\ pc' = "idle"
                /\ NoLocals
                /\ UNCHANGED <<file, clock, dirs, files>>
           ELSE IF selected = <<>> /\ (id # None \/ tag # None \/ language # None)
           THEN /\ last' = Result("export", "err", "not_found", <<>>, 0, 0)
                /\ pc' = "idle"
                /\ NoLocals
                /\ UNCHANGED <<file, clock, dirs, files>>
           ELSE IF Len(selected) > 1
           THEN /\ last' = Result("export", "prompt", "none", <<>>, 0, 0)
                /\ pc' = "export_confirm"
                /\ filtered_snippets' = selected
                /\ export_dir' = dir
                /\ UNCHANGED <<file, clock, dirs, files, snippets,
                               matching_snippets, snippet_to_edit>>
           ELSE Export(selected, dir, mkdir_fails, create_fails)

\* export_snippets from the answer to its prompt on
ExportConfirm(input, mkdir_fails, create_fails) ==
    /\ UNCHANGED procs
    /\ pc = "export_confirm"
    /\ line' = input
    /\ UNCHANGED before
    /\ IF ~ confirmed(input)
       THEN /\ last' = Result("export", "cancelled", "none", <<>>, 0, 0)
            /\ pc' = "idle"
            /\ NoLocals
            /\ UNCHANGED <<file, clock, dirs, files>>
       ELSE Export(filtered_snippets, export_dir, mkdir_fails, create_fails)

(***************************************************************************)
(* view_snippets and copy_code                                             *)
(***************************************************************************)
\* a plausible slip: every keyword has to occur, not any
keyword_matches_all(s, arg) ==
    \A i \in 1..Len(terms(arg)) :
        LET k == to_lowercase(terms(arg)[i])
        IN  \/ contains(to_lowercase(s.tag), k)
            \/ s.description # None /\ contains(to_lowercase(s.description[1]), k)
            \/ contains(to_lowercase(s.code), k)

\* view_snippets, keyword_match: some keyword is a substring, ignoring case,
\* of the tag, of the description if there is one, or of the code
keyword_matches(s, arg) ==
    \E i \in 1..Len(terms(arg)) :
        LET k == to_lowercase(terms(arg)[i])
        IN  \/ contains(to_lowercase(s.tag), k)
            \/ s.description # None /\ contains(to_lowercase(s.description[1]), k)
            \/ contains(to_lowercase(s.code), k)

\* the filter closure of view_snippets: tag_match && language_match &&
\* keyword_match, each true when its argument is None
view_filter(v, tag, language, keyword) ==
    SelectSeq(v, LAMBDA s :
        /\ tag # None => tag_matches(s, tag[1])
        /\ language # None => language_matches(s, language[1])
        /\ keyword # None => keyword_matches(s, keyword[1]))

\* a plausible slip: the ID is looked up in the whole collection
view_snippets_any_id(f, id, tag, language, keyword) ==
    LET loaded == load_snippets(f)
        index == IF id # None THEN position(loaded.snippets, id[1]) ELSE 0
    IN  IF ~ loaded.ok
        THEN [ok |-> FALSE, err |-> "load", missing |-> <<>>, snippets |-> <<>>]
        ELSE IF id = None
        THEN [ok |-> TRUE, err |-> "none", missing |-> <<>>,
              snippets |-> view_filter(loaded.snippets, tag, language, keyword)]
        ELSE IF index # 0
        THEN [ok |-> TRUE, err |-> "none", missing |-> <<>>,
              snippets |-> <<loaded.snippets[index]>>]
        ELSE [ok |-> FALSE, err |-> "not_found", missing |-> <<id[1]>>,
              snippets |-> <<>>]

\* view_snippets: [ok, err, missing, snippets]; the ID is looked up among
\* the snippets that passed the filter
view_snippets(f, id, tag, language, keyword) ==
    LET loaded == load_snippets(f)
        filtered == view_filter(loaded.snippets, tag, language, keyword)
        index == IF id # None THEN position(filtered, id[1]) ELSE 0
    IN  IF ~ loaded.ok
        THEN [ok |-> FALSE, err |-> "load", missing |-> <<>>, snippets |-> <<>>]
        ELSE IF id = None
        THEN [ok |-> TRUE, err |-> "none", missing |-> <<>>,
              snippets |-> filtered]
        ELSE IF index # 0
        THEN [ok |-> TRUE, err |-> "none", missing |-> <<>>,
              snippets |-> <<filtered[index]>>]
        ELSE [ok |-> FALSE, err |-> "not_found", missing |-> <<id[1]>>,
              snippets |-> <<>>]

\* view (main, Commands::View): filtered_snippets is what view_snippets
\* returns and main prints
View(id, tag, language, keyword) ==
    /\ UNCHANGED procs
    /\ Begin
    /\ LET r == view_snippets(file, id, tag, language, keyword)
       IN  /\ filtered_snippets' = r.snippets
           /\ last' = [Result("view", IF r.ok THEN "ok" ELSE "err", r.err,
                              r.missing, 0, IF id # None THEN id[1] ELSE 0)
                          EXCEPT !.args = <<id, tag, language, keyword>>]
    /\ line' = <<>>
    /\ pc' = "idle"
    /\ snippets' = <<>>
    /\ matching_snippets' = <<>>
    /\ snippet_to_edit' = None
    /\ ids' = <<>>
    /\ export_dir' = "none"
    /\ UNCHANGED <<file, clock, dirs, files>>

\* a plausible slip: copy takes the snippet out of the collection (a cut)
Copy_cut(id) ==
    /\ UNCHANGED procs
    /\ Begin
    /\ LET loaded == load_snippets(file)
           index == IF id # None THEN position(loaded.snippets, id[1]) ELSE 0
       IN  /\ last' = IF ~ loaded.ok
                      THEN Result("copy", "err", "load", <<>>, 0, 0)
                      ELSE IF id = None
                      THEN Result("copy", "err", "missing_id", <<>>, 0, 0)
                      ELSE IF index # 0
                      THEN Result("copy", "ok", "none", <<>>, index, id[1])
                      ELSE Result("copy", "err", "not_found", <<id[1]>>, 0, 0)
           /\ file' = IF loaded.ok /\ index # 0
                      THEN Stored(remove(loaded.snippets, index)) ELSE file
    /\ line' = <<>>
    /\ pc' = "idle"
    /\ NoLocals
    /\ UNCHANGED <<clock, dirs, files>>

\* copy (main, Commands::Copy): copy_code returns the first snippet with the
\* ID, recorded by its index
Copy(id) ==
    /\ UNCHANGED procs
    /\ Begin
    /\ LET loaded == load_snippets(file)
           index == IF id # None THEN position(loaded.snippets, id[1]) ELSE 0
       IN  last' = IF ~ loaded.ok
                   THEN Result("copy", "err", "load", <<>>, 0, 0)
                   ELSE IF id = None
                   THEN Result("copy", "err", "missing_id", <<>>, 0, 0)
                   ELSE IF index # 0
                   THEN Result("copy", "ok", "none", <<>>, index, id[1])
                   ELSE Result("copy", "err", "not_found", <<id[1]>>, 0, 0)
    /\ line' = <<>>
    /\ pc' = "idle"
    /\ NoLocals
    /\ UNCHANGED <<file, clock, dirs, files>>

(***************************************************************************)
(* strip_ansi_codes, format_with_border, print_snippet                     *)
(* One element of a string stands for one char; ESC and the box-drawing    *)
(* chars are written as names.                                             *)
(***************************************************************************)
ESC == "ESC"
Letters ==
    {"a", "b", "c", "d", "e", "f", "g", "h", "i", "j", "k", "l", "m", "n", "o",
     "p", "q", "r", "s", "t", "u", "v", "w", "x", "y", "z",
     "A", "B", "C", "D", "E", "F", "G", "H", "I", "J", "K", "L", "M", "N", "O",
     "P", "Q", "R", "S", "T", "U", "V", "W", "X", "Y", "Z"}
\* [0-9;]
Params == Digits \cup {";"}

\* the regex \x1B\[[0-9;]*[a-zA-Z] tried at s[1], the parameters read up to
\* s[j - 1]: the index of the final letter of the match, 0 when there is none
RECURSIVE csi_end(_, _)
csi_end(s, j) ==
    IF j > Len(s) THEN 0
    ELSE IF s[j] \in Params THEN csi_end(s, j + 1)
    ELSE IF s[j] \in Letters THEN j
    ELSE 0

\* a plausible slip: only the colour sequences, which end with 'm', are matched
RECURSIVE csi_end_m(_, _)
csi_end_m(s, j) ==
    IF j > Len(s) THEN 0
    ELSE IF s[j] \in Params THEN csi_end_m(s, j + 1)
    ELSE IF s[j] = "m" THEN j
    ELSE 0

RECURSIVE strip_ansi_codes_m(_)
strip_ansi_codes_m(input) ==
    IF input = <<>> THEN <<>>
    ELSE LET end == IF Len(input) >= 2 /\ input[1] = ESC /\ input[2] = "["
                    THEN csi_end_m(input, 3) ELSE 0
         IN  IF end # 0
             THEN strip_ansi_codes_m(SubSeq(input, end + 1, Len(input)))
             ELSE <<input[1]>> \o strip_ansi_codes_m(Tail(input))

\* strip_ansi_codes: re.replace_all(input, ""), the matches taken from left
\* to right, each search going on after the end of the match before
RECURSIVE strip_ansi_codes(_)
strip_ansi_codes(input) ==
    IF input = <<>> THEN <<>>
    ELSE LET end == IF Len(input) >= 2 /\ input[1] = ESC /\ input[2] = "["
                    THEN csi_end(input, 3) ELSE 0
         IN  IF end # 0
             THEN strip_ansi_codes(SubSeq(input, end + 1, Len(input)))
             ELSE <<input[1]>> \o strip_ansi_codes(Tail(input))

\* "\x1b[<params>m"
SGR(params) == <<ESC, "[">> \o params \o <<"m">>
Blue == SGR(<<"3", "4">>)
YellowBold == SGR(<<"3", "3", ";", "1">>)
MagentaBold == SGR(<<"3", "5", ";", "1">>)
Reset == SGR(<<"0">>)

\* " ".repeat(n), and any char repeated
repeat(s, n) == [i \in 1..(n * Len(s)) |-> s[((i - 1) % Len(s)) + 1]]

\* u32 as Display: its decimal digits
DigitChar(d) ==
    CASE d = 0 -> "0" [] d = 1 -> "1" [] d = 2 -> "2" [] d = 3 -> "3"
      [] d = 4 -> "4" [] d = 5 -> "5" [] d = 6 -> "6" [] d = 7 -> "7"
      [] d = 8 -> "8" [] OTHER -> "9"
RECURSIVE to_string(_)
to_string(n) ==
    IF n < 10 THEN <<DigitChar(n)>>
    ELSE to_string(n \div 10) \o <<DigitChar(n % 10)>>

\* str::lines(): the pieces between "\n", a final "\n" opens no new line, and
\* a "\r" just before the "\n" goes with it
RECURSIVE lines(_)
lines(s) ==
    IF s = <<>> THEN <<>>
    ELSE IF \E i \in 1..Len(s) : s[i] = NL
    THEN LET i == CHOOSE k \in 1..Len(s) :
                      s[k] = NL /\ \A j \in 1..(k - 1) : s[j] # NL
             piece == SubSeq(s, 1, i - 1)
         IN  <<IF piece # <<>> /\ piece[Len(piece)] = "\r"
               THEN SubSeq(piece, 1, Len(piece) - 1) ELSE piece>>
                 \o lines(SubSeq(s, i + 1, Len(s)))
    ELSE <<s>>

\* a plausible slip: the padding is computed from the raw length of the
\* content, escape sequences included
format_with_border_raw(content, width) ==
    LET padding == IF width > Len(content) THEN width - Len(content) ELSE 0
    IN  Blue \o <<"BOX_V">> \o Reset \o content \o repeat(<<" ">>, padding)
            \o Blue \o <<"BOX_V">> \o Reset

\* format_with_border: width.saturating_sub(stripped_content.chars().count())
format_with_border(content, width) ==
    LET stripped_content == strip_ansi_codes(content)
        padding == IF width > Len(stripped_content)
                   THEN width - Len(stripped_content) ELSE 0
    IN  Blue \o <<"BOX_V">> \o Reset \o content \o repeat(<<" ">>, padding)
            \o Blue \o <<"BOX_V">> \o Reset

\* LinesWithEndings::from(code): the lines, each with its "\n"
RECURSIVE lines_with_endings(_)
lines_with_endings(s) ==
    IF s = <<>> THEN <<>>
    ELSE IF \E i \in 1..Len(s) : s[i] = NL
    THEN LET i == CHOOSE k \in 1..Len(s) :
                      s[k] = NL /\ \A j \in 1..(k - 1) : s[j] # NL
         IN  <<SubSeq(s, 1, i)>> \o lines_with_endings(SubSeq(s, i + 1, Len(s)))
    ELSE <<s>>

\* format_terminal_snippets: each range as "\x1b[38;2;r;g;bm{text}", then the
\* reset
RECURSIVE format_terminal_snippets(_)
format_terminal_snippets(v) ==
    IF v = <<>> THEN Reset
    ELSE SGR(<<"3", "8", ";", "2", ";">> \o v[1].foreground) \o v[1].text
             \o format_terminal_snippets(Tail(v))

\* the highlighter of the syntect crate stands outside the repository: it cuts
\* a line into ranges that together spell the line; here one range a line
highlight_line(ln) ==
    <<[foreground |-> <<"1", ";", "2", ";", "3">>, text |-> ln]>>

RECURSIVE highlight_lines(_)
highlight_lines(lns) ==
    IF lns = <<>> THEN <<>>
    ELSE format_terminal_snippets(highlight_line(lns[1]))
             \o highlight_lines(Tail(lns))

highlight_code_snippets(code, language) ==
    highlight_lines(lines_with_endings(code))

\* println!: the lines the terminal receives for one call
println(text) == lines(text \o <<NL>>)

RECURSIVE print_code_lines(_, _)
print_code_lines(lns, width) ==
    IF lns = <<>> THEN <<>>
    ELSE println(format_with_border(<<" ", " ">> \o lns[1], width))
             \o print_code_lines(Tail(lns), width)

print_formatted_code(code, language, width) ==
    LET highlighted_code == IF language # None
                            THEN highlight_code_snippets(code, language[1])
                            ELSE code
    IN  println(format_with_border(
                    YellowBold \o <<" ", " ", "C", "o", "d", "e", ":">> \o Reset,
                    width))
            \o print_code_lines(lines(highlighted_code), width)

\* "  \x1b[33;1m<name>\x1b[0m \x1b[35;1m<value>\x1b[0m"
label_line(name, value) ==
    <<" ", " ">> \o YellowBold \o name \o Reset \o <<" ">> \o MagentaBold
        \o value \o Reset

id_line(snippet) == label_line(<<"I", "D", ":">>, to_string(snippet.id))
\* the timestamp is a String in the source; its text is the clock reading
created_line(snippet) ==
    label_line(<<"C", "r", "e", "a", "t", "e", "d", ":">>,
               to_string(snippet.timestamp))
tag_line(snippet) ==
    label_line(<<"S", "n", "i", "p", "p", "e", "t", "'", "s", " ", "T", "a",
                 "g", ":">>, snippet.tag)
summary_tag_line(snippet) == label_line(<<"T", "a", "g", ":">>, snippet.tag)
description_line(snippet) ==
    IF snippet.description # None
    THEN label_line(<<"D", "e", "s", "c", "r", "i", "p", "t", "i", "o", "n",
                      ":">>, snippet.description[1])
    ELSE <<>>

\* "\x1b[34m{}\x1b[0m" around corner, `width` rules, corner and `tail`
border_line(left, rule, right, width, tail) ==
    Blue \o Blue \o <<left>> \o Reset \o repeat(Blue \o <<rule>> \o Reset, width)
        \o Blue \o <<right>> \o Reset \o tail \o Reset

map_strip_ansi_codes(lns) == [i \in 1..Len(lns) |-> strip_ansi_codes(lns[i])]

max_line_length(all_lines) ==
    IF all_lines = <<>> THEN 0
    ELSE Max({Len(all_lines[i]) : i \in 1..Len(all_lines)})

\* the four label lines between the borders, the description only if present
print_labels(labels, width) ==
    println(format_with_border(labels[1], width))
        \o println(format_with_border(labels[2], width))
        \o println(format_with_border(labels[3], width))
        \o (IF labels[4] # <<>>
            THEN println(format_with_border(labels[4], width)) ELSE <<>>)

\* print_snippet: all_lines as computed, and the lines written
print_snippet(snippet) ==
    LET labels == <<id_line(snippet), tag_line(snippet), created_line(snippet),
                    description_line(snippet)>>
        all_lines == map_strip_ansi_codes(labels)
                         \o map_strip_ansi_codes(lines(snippet.code))
        adjusted_width == max_line_length(all_lines) + 4
    IN  [all_lines |-> all_lines,
         out |-> println(border_line("BOX_TL", "BOX_H", "BOX_TR",
                                     adjusted_width, <<>>))
                     \o print_labels(labels, adjusted_width)
                     \o println(border_line("BOX_L", "BOX_RULE", "BOX_R",
                                            adjusted_width, <<>>))
                     \o print_formatted_code(snippet.code, snippet.language,
                                             adjusted_width)
                     \o println(border_line("BOX_BL", "BOX_H", "BOX_BR",
                                            adjusted_width, <<NL>>))]

print_snippet_summary(snippet) ==
    LET labels == <<id_line(snippet), summary_tag_line(snippet),
                    created_line(snippet), description_line(snippet)>>
        all_lines == map_strip_ansi_codes(labels)
        adjusted_width == max_line_length(all_lines) + 4
    IN  [all_lines |-> all_lines,
         out |-> println(border_line("BOX_TL", "BOX_H", "BOX_TR",
                                     adjusted_width, <<>>))
                     \o print_labels(labels, adjusted_width)
                     \o println(border_line("BOX_BL", "BOX_H", "BOX_BR",
                                            adjusted_width, <<NL>>))]

(***************************************************************************)
(* The store under capture, edit and delete                                *)
(***************************************************************************)
DoCapture ==
    \E tag \in CaptureTags :
        Capture(tag, CaptureDescription, CaptureLanguage, CaptureCode)
DoDeleteStart == \E id_list \in DeleteRequests : DeleteStart(id_list)
DoDeleteConfirm == \E input \in ConfirmLines : DeleteConfirm(input)
DoEditStart == \E sel \in EditSelectors : EditStart(sel[1], sel[2])
DoEditChoose == \E input \in ChoiceLines : EditChoose(input)
DoEditFields == \E answers \in EditAnswers : EditFields(answers)

Next ==
    \/ DoCapture
    \/ DoDeleteStart
    \/ DoDeleteConfirm
    \/ DoEditStart
    \/ EditPrompt
    \/ DoEditChoose
    \/ DoEditFields

Spec == Init /\ [][Next]_vars

\* one invocation is one single-threaded process: it takes its next step
\* whenever it has one; what the operator types is not constrained
FairSpec == Spec /\ WF_vars(Next)

(***************************************************************************)
(* The store when a write stops between truncation and the last byte       *)
(***************************************************************************)
\* the data file after OpenOptions::open(truncate) when to_writer_pretty
\* fails, or the process stops, before the serialization is complete: the
\* file is empty or holds a prefix of the serialization, which does not parse
Torn == [kind |-> "corrupt", snippets |-> <<>>]

\* capture whose save_snippet stops after the truncation
CaptureTorn(tag, description, language, code) ==
    /\ UNCHANGED procs
    /\ Begin
    /\ clock < MaxCaptures
    /\ Len(file.snippets) < MaxLen
    /\ file.kind # "corrupt"
    /\ file' = Torn
    /\ last' = Result("capture", "err", "serializing", <<>>, 0,
                      generate_unique_id(file))
    /\ clock' = clock + 1
    /\ line' = <<>>
    /\ pc' = "idle"
    /\ NoLocals
    /\ UNCHANGED <<dirs, files>>

\* edit_snippet whose save_snippets_for_edit stops after the truncation
EditFieldsTorn(answers) ==
    /\ UNCHANGED procs
    /\ pc = "edit_fields"
    /\ line' = answers.new_language
    /\ file' = Torn
    /\ last' = [last EXCEPT !.status = "err", !.err = "serializing"]
    /\ pc' = "idle"
    /\ NoLocals
    /\ UNCHANGED <<clock, dirs, files, before>>

\* delete_snippet whose save_snippets_for_edit stops after the truncation
DeleteConfirmTorn(input) ==
    /\ UNCHANGED procs
    /\ pc = "delete_confirm"
    /\ confirmed(input)
    /\ remove_ids(snippets, ids).deleted_count > 0
    /\ line' = input
    /\ file' = Torn
    /\ last' = Result("delete", "err", "serializing", <<>>, 0, 0)
    /\ pc' = "idle"
    /\ DeleteEnds
    /\ UNCHANGED <<clock, dirs, files, ids, before>>

DoCaptureTorn ==
    \E tag \in CaptureTags :
        CaptureTorn(tag, CaptureDescription, CaptureLanguage, CaptureCode)
DoEditFieldsTorn == \E answers \in EditAnswers : EditFieldsTorn(answers)
DoDeleteConfirmTorn == \E input \in ConfirmLines : DeleteConfirmTorn(input)

NextTorn ==
    \/ Next
    \/ DoCaptureTorn
    \/ DoEditFieldsTorn
    \/ DoDeleteConfirmTorn

TornSpec == Init /\ [][NextTorn]_vars

(***************************************************************************)
(* Delete and export on a store of captured snippets                       *)
(***************************************************************************)
\* export -i <id> -t <tags> -l <languages> -p <path>
\* <<id, tag, language>>, each an Option
ExportSelectors ==
    {<<None, None, None>>,
     <<Some(1), None, None>>,
     <<Some(MaxCaptures + 1), None, None>>,
     <<None, Some(<<"a">>), None>>,
     <<None, Some(<<"z", ",", " ", "b">>), None>>,
     <<None, None, Some(<<"p", "y">>)>>,
     <<None, None, Some(<<"r", "u", "s", "t">>)>>,
     <<Some(1), Some(<<"a">>), Some(<<"p", "y">>)>>}
ExportPaths == {None, Some("out")}
\* what fails: <<create_dir_all fails, index of the File::create that fails>>
ExportFaults == {<<FALSE, 0>>, <<TRUE, 0>>, <<FALSE, 1>>, <<FALSE, 2>>}

\* the data file after one capture for each tag of `tags`, in that order
RECURSIVE captured(_)
captured(tags) ==
    IF tags = <<>> THEN Absent
    ELSE LET f == captured(SubSeq(tags, 1, Len(tags) - 1))
         IN  save_snippet(Snippet(tags[Len(tags)], Some(CaptureDescription),
                                  CaptureCode, Len(tags), Some(CaptureLanguage),
                                  generate_unique_id(f)), f).file

ExportInit ==
    /\ \E n \in 0..MaxLen : \E tags \in [1..n -> CaptureTags] :
           /\ file = captured(tags)
           /\ clock = n
    /\ dirs = {}
    /\ files = {}
    /\ pc = "idle"
    /\ snippets = <<>>
    /\ matching_snippets = <<>>
    /\ snippet_to_edit = None
    /\ ids = <<>>
    /\ filtered_snippets = <<>>
    /\ export_dir = "none"
    /\ line = <<>>
    /\ before = file
    /\ last = NoResult
    /\ procs = <<>>

DoExportStart ==
    \E sel \in ExportSelectors, export_path \in ExportPaths,
       fault \in ExportFaults :
        ExportStart(sel[1], sel[2], sel[3], export_path, fault[1], fault[2])
DoExportConfirm ==
    \E input \in ConfirmLines, fault \in ExportFaults :
        ExportConfirm(input, fault[1], fault[2])

NextExport ==
    \/ DoDeleteStart
    \/ DoDeleteConfirm
    \/ DoExportStart
    \/ DoExportConfirm

ExportSpec == ExportInit /\ [][NextExport]_vars

(***************************************************************************)
(* Export again, into a directory that may hold a file of an earlier export*)
(***************************************************************************)
\* the file an earlier export wrote for snippet 1, whose code was edited since
StaleFile == <<<<DefaultExportDir, 1, "py">>, <<"o", "l", "d">>>>

ExportAgainInit ==
    /\ \E n \in 0..MaxLen : \E tags \in [1..n -> CaptureTags] :
           /\ file = captured(tags)
           /\ clock = n
    /\ \/ dirs = {} /\ files = {}
       \/ dirs = {DefaultExportDir} /\ files = {StaleFile}
    /\ pc = "idle"
    /\ snippets = <<>>
    /\ matching_snippets = <<>>
    /\ snippet_to_edit = None
    /\ ids = <<>>
    /\ filtered_snippets = <<>>
    /\ export_dir = "none"
    /\ line = <<>>
    /\ before = file
    /\ last = NoResult
    /\ procs = <<>>

NextExportAgain ==
    \/ DoExportStart
    \/ DoExportConfirm

ExportAgainSpec == ExportAgainInit /\ [][NextExportAgain]_vars

(***************************************************************************)
(* View and copy on a store of captured and edited snippets                *)
(***************************************************************************)
\* the snippets that can stand at position i of a store: as captured, and as
\* left by edits (no description, no language, empty code)
Shelf(i) ==
    {Snippet(<<"a">>, Some(CaptureDescription), CaptureCode, i,
             Some(CaptureLanguage), i),
     Snippet(<<"A", "b">>, None, <<"z">>, i, None, i),
     Snippet(<<"d">>, Some(<<"F", "o", "o">>), <<>>, i, Some(<<"R">>), i),
     Snippet(<<"c">>, Some(<<"e">>), <<"B", " ", "y">>, i,
             Some(<<"R", "u", "s", "t">>), i)}

ViewStores ==
    {Absent, Corrupt}
        \cup UNION {{Stored(v) : v \in {w \in [1..n -> UNION {Shelf(i) : i \in 1..n}] :
                                          \A i \in 1..n : w[i] \in Shelf(i)}} :
                    n \in 0..MaxLen}

\* view -i <id> -t <tags> -l <languages> -k <keywords>
ViewIds == {None, Some(2), Some(MaxLen + 1)}
ViewTags == {None, Some(<<"a">>), Some(<<"z", ",", " ", "B">>)}
ViewLanguages ==
    {None, Some(<<"P", "Y">>), Some(<<"j", "s", ",", " ", "r", "u", "s", "t">>)}
ViewKeywords == {None, Some(<<"F", "O", "O">>), Some(<<"q", ",", "y">>)}
ViewSelectors == ViewIds \X ViewTags \X ViewLanguages \X ViewKeywords

ViewInit ==
    /\ file \in ViewStores
    /\ clock = Len(file.snippets)
    /\ dirs = {}
    /\ files = {}
    /\ pc = "idle"
    /\ snippets = <<>>
    /\ matching_snippets = <<>>
    /\ snippet_to_edit = None
    /\ ids = <<>>
    /\ filtered_snippets = <<>>
    /\ export_dir = "none"
    /\ line = <<>>
    /\ before = file
    /\ last = NoResult
    /\ procs = <<>>

DoView == \E sel \in ViewSelectors : View(sel[1], sel[2], sel[3], sel[4])
DoCopy == \E id \in ViewIds : Copy(id)

NextView ==
    \/ DoView
    \/ DoCopy

ViewSpec == ViewInit /\ [][NextView]_vars

(***************************************************************************)
(* Every operation, from a store that is missing or does not parse         *)
(***************************************************************************)
FirstInit ==
    /\ file \in {Absent, Corrupt}
    /\ clock = MaxCaptures - 1
    /\ dirs = {}
    /\ files = {}
    /\ pc = "idle"
    /\ snippets = <<>>
    /\ matching_snippets = <<>>
    /\ snippet_to_edit = None
    /\ ids = <<>>
    /\ filtered_snippets = <<>>
    /\ export_dir = "none"
    /\ line = <<>>
    /\ before = file
    /\ last = NoResult
    /\ procs = <<>>

\* export and view with no argument and with the ID of the first capture;
\* no directory or file creation fails
FirstExportSelectors == {<<None, None, None>>, <<Some(1), None, None>>}
FirstViewSelectors ==
    {<<None, None, None, None>>, <<Some(1), Some(<<"a">>), None, None>>}

DoFirstExportStart ==
    \E sel \in FirstExportSelectors :
        ExportStart(sel[1], sel[2], sel[3], None, FALSE, 0)
DoFirstExportConfirm == \E input \in ConfirmLines : ExportConfirm(input, FALSE, 0)
DoFirstView ==
    \E sel \in FirstViewSelectors : View(sel[1], sel[2], sel[3], sel[4])

NextFirst ==
    \/ Next
    \/ DoFirstExportStart
    \/ DoFirstExportConfirm
    \/ DoFirstView
    \/ DoCopy

FirstSpec == FirstInit /\ [][NextFirst]_vars

(***************************************************************************)
(* RenderSpec: view with its output, on stores whose text holds escape     *)
(* sequences                                                               *)
(***************************************************************************)
Red == SGR(<<"3", "1">>)
RedHi == Red \o <<"h", "i">> \o Reset
AdjacentCodes == SGR(<<"1", ";", "2">>) \o Reset \o <<"a">>

RenderCodes ==
    {<<"x", NL, "y">>, RedHi, AdjacentCodes, <<"a", ESC, "[", "3", "1">>,
     <<ESC, "[", "2", "K", "b", NL>>, <<>>,
     repeat(<<"w">>, 20) \o <<NL>> \o Red \o <<"c", ESC>>,
     <<"[", "m", NL, NL, ESC, "[">>}
RenderTags == {<<"a">>, Red \o <<"t">>, <<"b", ESC, "[">>}
RenderDescriptions == {None, Some(<<"d", ESC, "[", ";", "H">>)}
RenderLanguages == {None, Some(Python)}

RenderSnippets ==
    {Snippet(t, d, c, 1, l, 1) :
        t \in RenderTags, d \in RenderDescriptions, c \in RenderCodes,
        l \in RenderLanguages}
RenderStores ==
    {<<s>> : s \in RenderSnippets}
        \cup {<<Snippet(<<"a">>, None, AdjacentCodes, 2, None, 12), s>> :
                 s \in RenderSnippets}

RenderInit ==
    /\ file \in {Stored(v) : v \in RenderStores}
    /\ clock = MaxCaptures
    /\ dirs = {}
    /\ files = {}
    /\ pc = "idle"
    /\ snippets = <<>>
    /\ matching_snippets = <<>>
    /\ snippet_to_edit = None
    /\ ids = <<>>
    /\ filtered_snippets = <<>>
    /\ export_dir = "none"
    /\ line = <<>>
    /\ before = file
    /\ last = NoResult
    /\ procs = <<>>

\* view (main, Commands::View) with what it writes: one block a snippet that
\* view_snippets returned, by print_snippet_summary under --summary and by
\* print_snippet otherwise
ViewPrinted(id, tag, language, keyword, summary) ==
    /\ UNCHANGED procs
    /\ Begin
    /\ LET r == view_snippets(file, id, tag, language, keyword)
           blocks == [i \in 1..Len(r.snippets) |->
                         IF summary THEN print_snippet_summary(r.snippets[i])
                         ELSE print_snippet(r.snippets[i])]
       IN  /\ filtered_snippets' = r.snippets
           /\ last' = [Result("view", IF r.ok THEN "ok" ELSE "err", r.err,
                              r.missing, 0, IF id # None THEN id[1] ELSE 0)
                          EXCEPT !.args = <<id, tag, language, keyword, summary>>,
                                 !.all_lines =
                                     [i \in 1..Len(blocks) |-> blocks[i].all_lines],
                                 !.out = [i \in 1..Len(blocks) |-> blocks[i].out]]
    /\ line' = <<>>
    /\ pc' = "idle"
    /\ snippets' = <<>>
    /\ matching_snippets' = <<>>
    /\ snippet_to_edit' = None
    /\ ids' = <<>>
    /\ export_dir' = "none"
    /\ UNCHANGED <<file, clock, dirs, files>>

NextRender ==
    \/ \E id \in {None, Some(1)} : ViewPrinted(id, None, None, None, FALSE)
    \/ \E id \in {None, Some(1)} : ViewPrinted(id, None, None, None, TRUE)

RenderSpec == RenderInit /\ [][NextRender]_vars

(***************************************************************************)
(* ReadSpec: view, copy and export on every store, with their failures     *)
(***************************************************************************)
NextRead ==
    \/ \E sel \in FirstViewSelectors
                   \cup {<<Some(MaxLen + 1), None, None, None>>,
                         <<None, None, None, Some(<<"F", "O", "O">>)>>} :
           View(sel[1], sel[2], sel[3], sel[4])
    \/ DoCopy
    \/ \E sel \in FirstExportSelectors
                   \cup {<<None, None, Some(<<"r", "u", "s", "t">>)>>},
          fault \in ExportFaults :
           ExportStart(sel[1], sel[2], sel[3], None, fault[1], fault[2])
    \/ \E input \in {<<"y", NL>>, <<"n", NL>>}, fault \in ExportFaults :
           ExportConfirm(input, fault[1], fault[2])

ReadSpec == ViewInit /\ [][NextRead]_vars

(***************************************************************************)
(* RaceSpec: two capture invocations as processes of their own on one      *)
(* DATA_FILE. Each reads the file in generate_unique_id, reads it again    *)
(* in save_snippet, truncates it when it opens it for writing, and writes  *)
(* its whole collection.                                                   *)
(***************************************************************************)
Procs == {1, 2}

RaceStores ==
    {Absent, Stored(<<>>),
     Stored(<<Snippet(<<"a">>, Some(CaptureDescription), CaptureCode, 1,
                      Some(CaptureLanguage), 1)>>),
     Stored(<<Snippet(<<"a">>, Some(CaptureDescription), CaptureCode, 1,
                      Some(CaptureLanguage), 2)>>)}

\* a process before its first step: `alone` tells that no other capture was
\* under way when it began, `overwritten` that another process wrote into the
\* file between this one's truncation and its own write
Process(tag) ==
    [pc |-> "new_snippet", tag |-> tag, new_snippet |-> None, loaded |-> Absent,
     err |-> "none", alone |-> FALSE, overwritten |-> FALSE]

RaceInit ==
    /\ file \in RaceStores
    /\ clock = Len(file.snippets)
    /\ dirs = {}
    /\ files = {}
    /\ pc = "idle"
    /\ snippets = <<>>
    /\ matching_snippets = <<>>
    /\ snippet_to_edit = None
    /\ ids = <<>>
    /\ filtered_snippets = <<>>
    /\ export_dir = "none"
    /\ line = <<>>
    /\ before = file
    /\ last = NoResult
    /\ procs \in {<<Process(t1), Process(t2)>> :
                     t1 \in CaptureTags, t2 \in CaptureTags}

RaceFrame ==
    UNCHANGED <<dirs, files, pc, snippets, matching_snippets, snippet_to_edit,
                ids, filtered_snippets, export_dir, line, before, last>>

\* main, Commands::Capture: Snippet { .. timestamp: Local::now(), ..
\* id: generate_unique_id(DATA_FILE) }
NewSnippet(p) ==
    /\ procs[p].pc = "new_snippet"
    /\ procs' = [procs EXCEPT
                    ![p].pc = "load",
                    ![p].alone = procs[3 - p].pc \in {"new_snippet", "done"},
                    ![p].new_snippet =
                        Some(Snippet(procs[p].tag, Some(CaptureDescription),
                                     CaptureCode, clock + 1,
                                     Some(CaptureLanguage),
                                     generate_unique_id(file)))]
    /\ clock' = clock + 1
    /\ UNCHANGED file
    /\ RaceFrame

\* save_snippet, File::open and from_reader: the collection as the file holds
\* it now; a file that does not parse ends the invocation with the error
Load(p) ==
    /\ procs[p].pc = "load"
    /\ procs' = IF file.kind = "corrupt"
                THEN [procs EXCEPT ![p].pc = "done",
                                   ![p].err = "deserializing"]
                ELSE [procs EXCEPT ![p].pc = "truncate", ![p].loaded = file]
    /\ UNCHANGED <<file, clock>>
    /\ RaceFrame

\* save_snippet, OpenOptions .truncate(true).open: the file is empty
Truncate(p) ==
    /\ procs[p].pc = "truncate"
    /\ file' = Torn
    /\ procs' = [procs EXCEPT ![p].pc = "write", ![p].overwritten = FALSE]
    /\ UNCHANGED clock
    /\ RaceFrame

\* save_snippet, to_writer_pretty: what was loaded with the new snippet
\* pushed, written from offset 0. Over bytes another process wrote since the
\* truncation the result is this collection, or text that does not parse
\* when the other text was the longer one
Write(p) ==
    /\ procs[p].pc = "write"
    /\ LET mine == save_snippet(procs[p].new_snippet[1], procs[p].loaded).file
       IN  file' \in IF procs[p].overwritten THEN {mine, Corrupt} ELSE {mine}
    /\ procs' = [q \in Procs |->
                    IF q = p THEN [procs[q] EXCEPT !.pc = "done"]
                    ELSE IF procs[q].pc = "write"
                    THEN [procs[q] EXCEPT !.overwritten = TRUE]
                    ELSE procs[q]]
    /\ UNCHANGED clock
    /\ RaceFrame

NextRace ==
    \/ \E p \in Procs : NewSnippet(p)
    \/ \E p \in Procs : Load(p)
    \/ \E p \in Procs : Truncate(p)
    \/ \E p \in Procs : Write(p)

RaceSpec == RaceInit /\ [][NextRace]_vars

(***************************************************************************)
(* Properties                                                              *)
(***************************************************************************)
Last(s) == s[Len(s)]
Front(s) == SubSeq(s, 1, Len(s) - 1)
IdSet(v) == {v[i].id : i \in 1..Len(v)}
EditDone == last.op = "edit" /\ last.status = "ok"
DeleteDone == last.op = "delete" /\ last.status = "ok"

\* C1: the IDs of the snippets of the persisted collection are pairwise
\* distinct
IdsPairwiseDistinct ==
    \A i, j \in 1..Len(file.snippets) :
        i # j => file.snippets[i].id # file.snippets[j].id

\* C2: after a successful edit the persisted collection is the collection
\* the edit loaded with the target removed and the edited snippet appended:
\* as many snippets as before, the others unchanged and in the same order
EditReplacesTarget ==
    EditDone =>
        /\ Len(file.snippets) = Len(before.snippets)
        /\ Front(file.snippets) = remove(before.snippets, last.index)

\* C3: when a requested ID is absent from the collection, delete fails
\* before its prompt (no answer is read), the store is as it was, and the
\* error names exactly the requested IDs that are absent
DeleteAllOrNothing ==
    (last.op = "delete" /\ before.kind = "ok"
        /\ \E k \in 1..Len(ids) : ids[k] \notin IdSet(before.snippets))
    => /\ pc = "idle"
       /\ last.status = "err"
       /\ last.err = "not_found"
       /\ line = <<>>
       /\ file = before
       /\ Range(last.missing) = Range(ids) \ IdSet(before.snippets)

\* a delete was refused for a missing ID although another requested ID
\* exists, and two missing IDs were named together
DeleteRefusedWitness ==
    /\ last.op = "delete"
    /\ last.err = "not_found"
    /\ file = before
    /\ \/ \E k \in 1..Len(ids) : ids[k] \in IdSet(before.snippets)
       \/ Cardinality(Range(last.missing)) = 2

\* C4: a confirmed delete persists the collection it loaded without the
\* snippets whose ID was requested, the others unchanged and in order
DeleteRemovesRequested ==
    DeleteDone =>
        file.snippets =
            SelectSeq(before.snippets, LAMBDA s : s.id \notin Range(ids))

\* C5: the ID a capture allocates is max(ids) + 1, above every ID of the
\* collection, and 1 when the store is absent, empty or unreadable
NextIdAboveAll ==
    last.op = "capture" =>
        /\ \A i \in 1..Len(before.snippets) : last.id > before.snippets[i].id
        /\ before.snippets # <<>> => last.id = Max(IdSet(before.snippets)) + 1
        /\ before.snippets = <<>> => last.id = 1

\* a capture after the deletion of a snippet that did not hold the maximum
NextIdWitness ==
    /\ last.op = "capture"
    /\ last.status = "ok"
    /\ Len(before.snippets) = 1
    /\ last.id = 3

\* C6 as claimed: the edited snippet's ID differs from the target's
EditGivesNewId ==
    EditDone => Last(file.snippets).id # before.snippets[last.index].id

\* C6: the edited snippet keeps the ID the target had before the edit
EditKeepsId ==
    EditDone => Last(file.snippets).id = before.snippets[last.index].id

\* an edit that changed the tag and the code of its target
EditChangedWitness ==
    /\ EditDone
    /\ Last(file.snippets).tag # before.snippets[last.index].tag
    /\ Last(file.snippets).code # before.snippets[last.index].code

\* C7: no operation changes the id or the timestamp of a snippet: the
\* edited snippet carries those of its target, every other snippet that is
\* still stored is a snippet that was stored, and a capture adds one snippet
\* stamped with the time of the capture
IdAndTimestampFixed ==
    /\ EditDone =>
        /\ Last(file.snippets).id = before.snippets[last.index].id
        /\ Last(file.snippets).timestamp = before.snippets[last.index].timestamp
        /\ Range(Front(file.snippets)) \subseteq Range(before.snippets)
    /\ last.op = "delete" => Range(file.snippets) \subseteq Range(before.snippets)
    /\ (last.op = "capture" /\ last.status = "ok") =>
        /\ Front(file.snippets) = before.snippets
        /\ Last(file.snippets).timestamp = clock
        /\ Last(file.snippets).id = last.id

\* an edit, after a later capture, of a snippet that is not the latest
EditedOldWitness ==
    /\ EditDone
    /\ Last(file.snippets).timestamp < clock
    /\ Last(file.snippets).description # before.snippets[last.index].description

\* the answer just read at the disambiguation prompt is not a listed ID
UnlistedAnswer ==
    /\ last.op = "edit"
    /\ last.status = "answered"
    /\ LET parsed == parse_u32(trim(line))
       IN  parsed = None \/ parsed[1] \notin IdSet(matching_snippets)

EveryInvocationCompletes == (pc # "idle") ~> (pc = "idle")

\* C10: an answer other than "y" (trimmed, case ignored) to the delete or
\* to the export confirmation ends the invocation with the store, the
\* directories and the exported files as they were
NegativeAnswerAborts ==
    [][(pc \in {"delete_confirm", "export_confirm"}
            /\ to_lowercase(trim(line')) # <<"y">>)
        => (pc' = "idle" /\ file' = file /\ dirs' = dirs /\ files' = files)]_vars

\* an export of several snippets was cancelled by an answer that is not "n"
ExportCancelledWitness ==
    /\ last.op = "export"
    /\ last.status = "cancelled"
    /\ line = <<"y", "e", "s", NL>>
    /\ dirs = {}

\* C11: an edit that resolves no target (the ID supplied is the ID of no
\* snippet, no ID is supplied and the tag supplied is contained in no tag, or
\* neither is supplied) returns an error and leaves the store as it was; when
\* an ID is supplied it alone decides: the target is the first snippet with
\* that ID, whatever the tag supplied
EditTargetResolution ==
    (last.op = "edit" /\ before.kind = "ok") =>
        LET v == before.snippets
            id == last.args[1]
            tag == last.args[2]
            by_id == {i \in 1..Len(v) : id # None /\ v[i].id = id[1]}
            by_tag == {i \in 1..Len(v) :
                          /\ tag # None
                          /\ contains(to_lowercase(v[i].tag), to_lowercase(tag[1]))}
        IN  /\ (by_id = {} /\ (id # None \/ by_tag = {})) =>
                   /\ pc = "idle"
                   /\ last.status = "err"
                   /\ last.err # "none"
                   /\ file = before
            /\ by_id # {} =>
                   LET index == CHOOSE i \in by_id : \A j \in by_id : i <= j
                   IN  \/ /\ pc = "edit_fields"
                          /\ snippet_to_edit = Some(v[index])
                          /\ snippets = remove(v, index)
                          /\ file = before
                       \/ /\ pc = "idle"
                          /\ last.status = "ok"
                          /\ last.index = index
                          /\ Front(file.snippets) = remove(v, index)
                          /\ Last(file.snippets).id = id[1]

\* an edit failed for an ID that no snippet has, although the tag supplied
\* with it is the tag of a snippet
EditUnresolvedWitness ==
    /\ last.op = "edit"
    /\ last.status = "err"
    /\ last.err = "id_not_found"
    /\ last.args[2] = Some(<<"a">>)
    /\ \E i \in 1..Len(file.snippets) : file.snippets[i].tag = <<"a">>
    /\ file = before

\* C12: every step leaves the persisted content as it was or replaces it by
\* a complete collection; it is never empty or partial
WriteIsAtomic == [][file' = file \/ file'.kind = "ok"]_vars

\* the terms of a comma-separated argument
TermSet(arg) == {trim(piece) : piece \in Range(split(arg))}
\* the term is a substring of the field, case ignored
Occurs(term, field) == contains(to_lowercase(field), to_lowercase(term))
TagPasses(s, tag) ==
    tag = None \/ \E term \in TermSet(tag[1]) : Occurs(term, s.tag)
LanguagePasses(s, language) ==
    \/ language = None
    \/ s.language # None
          /\ \E term \in TermSet(language[1]) : Occurs(term, s.language[1])
KeywordPasses(s, keyword) ==
    \/ keyword = None
    \/ \E term \in TermSet(keyword[1]) :
           \/ Occurs(term, s.tag)
           \/ s.description # None /\ Occurs(term, s.description[1])
           \/ Occurs(term, s.code)
Passes(s, sel) ==
    TagPasses(s, sel[2]) /\ LanguagePasses(s, sel[3]) /\ KeywordPasses(s, sel[4])

\* C13: a view without ID returns, in the order of the collection, exactly
\* the snippets that pass every dimension supplied; a snippet without
\* language passes no language filter, a dimension not supplied lets pass
FilterKeepsPassing ==
    (last.op = "view" /\ file.kind = "ok" /\ last.args[1] = None) =>
        /\ last.status = "ok"
        /\ filtered_snippets =
               SelectSeq(file.snippets, LAMBDA s : Passes(s, last.args))
        /\ \A s \in Range(filtered_snippets) :
               last.args[3] # None => s.language # None

\* a view by language returned the second of two snippets and not the first,
\* which has no language
FilteredWitness ==
    /\ last.op = "view"
    /\ last.status = "ok"
    /\ last.args[1] = None
    /\ last.args[3] # None
    /\ Len(file.snippets) = 2
    /\ file.snippets[1].language = None
    /\ filtered_snippets = <<file.snippets[2]>>

\* C14: when keywords are supplied, no snippet in which no keyword occurs
\* (in the tag, the description or the code) is returned, and when nothing
\* but keywords is supplied every snippet in which one occurs is returned
KeywordKeepsOccurring ==
    (last.op = "view" /\ file.kind = "ok" /\ last.args[4] # None) =>
        /\ \A s \in Range(filtered_snippets) : KeywordPasses(s, last.args[4])
        /\ (last.args[1] = None /\ last.args[2] = None /\ last.args[3] = None) =>
               Range(filtered_snippets) =
                   {s \in Range(file.snippets) : KeywordPasses(s, last.args[4])}

\* a view by keyword returned only a snippet whose description holds "foo"
\* in another case, from a store whose other snippet holds it nowhere
KeywordWitness ==
    /\ last.op = "view"
    /\ last.status = "ok"
    /\ last.args = <<None, None, None, Some(<<"F", "O", "O">>)>>
    /\ Len(file.snippets) = 2
    /\ Len(filtered_snippets) = 1
    /\ filtered_snippets[1].description = Some(<<"F", "o", "o">>)
    /\ filtered_snippets[1].tag = <<"d">>

\* C15: a view with an ID returns only the first snippet with that ID among
\* those that pass the dimensions supplied, and fails with a not-found error
\* naming the ID when none of them has it, whatever else the collection holds
IdIsPostFilter ==
    (last.op = "view" /\ file.kind = "ok" /\ last.args[1] # None) =>
        LET survivors == SelectSeq(file.snippets, LAMBDA s : Passes(s, last.args))
            hits == SelectSeq(survivors, LAMBDA s : s.id = last.args[1][1])
        IN  IF hits # <<>>
            THEN /\ last.status = "ok"
                 /\ filtered_snippets = <<hits[1]>>
            ELSE /\ last.status = "err"
                 /\ last.err = "not_found"
                 /\ last.missing = <<last.args[1][1]>>
                 /\ filtered_snippets = <<>>

\* a view by tag and ID failed for an ID that a snippet of the collection has
IdExcludedWitness ==
    /\ last.op = "view"
    /\ last.err = "not_found"
    /\ last.args[1] = Some(2)
    /\ last.args[2] # None
    /\ last.missing = <<2>>
    /\ 2 \in IdSet(file.snippets)

\* C16: after a capture that succeeded, what load_snippets returns is the
\* collection found before it, every snippet with its value, its ID and its
\* position, followed by exactly the snippet captured
AppendThenLoad ==
    (last.op = "capture" /\ last.status = "ok") =>
        LET loaded == load_snippets(file)
            n == Len(before.snippets)
        IN  /\ loaded.ok
            /\ Len(loaded.snippets) = n + 1
            /\ \A i \in 1..n : loaded.snippets[i] = before.snippets[i]
            /\ \E tag \in CaptureTags :
                   loaded.snippets[n + 1] =
                       Snippet(tag, Some(CaptureDescription), CaptureCode, clock,
                               Some(CaptureLanguage), last.id)

\* a capture into a store that held a snippet without description
AppendedWitness ==
    /\ last.op = "capture"
    /\ last.status = "ok"
    /\ before.snippets # <<>>
    /\ before.snippets[1].description = None
    /\ Len(file.snippets) = Len(before.snippets) + 1

\* C17: on a store that does not exist, view, copy, edit, delete and export
\* end with the error of load_snippets and the store still does not exist;
\* a capture succeeds, allocates ID 1 and creates the store, which holds
\* the captured snippet and nothing else
AbsentStore ==
    before.kind = "absent" =>
        /\ last.op \in {"view", "copy", "edit", "delete", "export"} =>
               /\ pc = "idle"
               /\ last.status = "err"
               /\ last.err = "load"
               /\ file = Absent
               /\ dirs = {} /\ files = {}
        /\ last.op = "capture" =>
               /\ last.status = "ok"
               /\ last.id = 1
               /\ \E tag \in CaptureTags :
                      file = Stored(<<Snippet(tag, Some(CaptureDescription),
                                              CaptureCode, clock,
                                              Some(CaptureLanguage), 1)>>)

\* the first capture created the store
AbsentStoreWitness ==
    /\ before.kind = "absent"
    /\ last.op = "capture"
    /\ file.kind = "ok"

\* C18: on a store that does not parse every operation ends with an error
\* and the content stays as it was; the capture that fails had ID 1
\* allocated for its snippet
CorruptStore ==
    (before.kind = "corrupt" /\ last.op # "none") =>
        /\ pc = "idle"
        /\ last.status = "err"
        /\ file = before
        /\ dirs = {} /\ files = {}
        /\ last.op = "capture" => (last.id = 1 /\ last.err = "deserializing")
        /\ last.op # "capture" => last.err = "load"

\* a capture failed on a store that does not parse
CorruptStoreWitness ==
    /\ before.kind = "corrupt"
    /\ last.op = "capture"
    /\ last.status = "err"
    /\ last.id = 1

\* C19: no step changes or removes a file that exists; a file that appears
\* holds exactly the code of the stored snippet it is named after; a file
\* reported as skipped existed; and a confirmed export of several snippets
\* reports as skipped every selected snippet whose file existed and writes
\* the code of every other one
ExportNeverOverwrites ==
    [][/\ \A f \in files : f \in files'
       /\ \A f \in files' \ files :
              \E i \in 1..Len(file.snippets) :
                  /\ f[1][2] = file.snippets[i].id
                  /\ f[1][3] = extension(file.snippets[i].language)
                  /\ f[2] = file.snippets[i].code
       /\ \A name \in Range(last'.skipped) : \E f \in files : f[1] = name
       /\ (pc = "export_confirm" /\ last'.status = "ok") =>
              \A i \in 1..Len(filtered_snippets) :
                  LET s == filtered_snippets[i]
                      name == <<export_dir, s.id, extension(s.language)>>
                  IN  IF \E f \in files : f[1] = name
                      THEN name \in Range(last'.skipped)
                      ELSE /\ <<name, s.code>> \in files'
                           /\ name \notin Range(last'.skipped)]_vars

\* an export skipped a snippet whose file holds something else than its code
ExportSkippedWitness ==
    /\ last.op = "export"
    /\ last.status = "ok"
    /\ last.skipped # <<>>
    /\ StaleFile \in files
    /\ StaleFile[1] \in Range(last.skipped)
    /\ file.snippets[1].code # StaleFile[2]

\* C20: in a confirmed export of several snippets whose directory could be
\* created, at most the one snippet whose file could not be created is left
\* without a file
ExportIsBestEffort ==
    [][(pc = "export_confirm" /\ to_lowercase(trim(line')) = <<"y">>
            /\ last'.err # "creating_directory") =>
          Cardinality({i \in 1..Len(filtered_snippets) :
              ~ \E f \in files' :
                  f[1] = <<export_dir, filtered_snippets[i].id,
                           extension(filtered_snippets[i].language)>>}) <= 1]_vars


(***************************************************************************)
(* Escape sequences and the width of what is written                       *)
(***************************************************************************)
\* s[i..j] is ESC, '[', any run of digits and ';', and one ASCII letter
IsEscapeSequence(s, i, j) ==
    /\ 1 <= i
    /\ i + 2 <= j
    /\ j <= Len(s)
    /\ s[i] = ESC
    /\ s[i + 1] = "["
    /\ s[j] \in Letters
    /\ \A k \in (i + 2)..(j - 1) : s[k] \in Params

\* the positions of s inside some escape sequence
Escaped(s) ==
    UNION {{k \in i..Len(s) :
               \E j \in k..Len(s) : IsEscapeSequence(s, i, j)} :
           i \in {n \in 1..Len(s) : s[n] = ESC}}

\* the chars of s outside every escape sequence, in their order
Visible(s) ==
    LET keep == (1..Len(s)) \ Escaped(s)
    IN  [n \in 1..Cardinality(keep) |->
            s[CHOOSE k \in keep : Cardinality({x \in keep : x < k}) = n - 1]]

\* the strings handed to strip_ansi_codes for the block of one snippet
StripInputs(snippet, summary) ==
    <<id_line(snippet),
      IF summary THEN summary_tag_line(snippet) ELSE tag_line(snippet),
      created_line(snippet), description_line(snippet)>>
        \o (IF summary THEN <<>> ELSE lines(snippet.code))

Printed == last.op = "view" /\ Len(last.args) = 5

\* C21: what strip_ansi_codes returns for a string is the string without the
\* chars of any escape sequence (ESC, '[', digits and ';', one letter), also
\* where sequences touch; a string without ESC comes back whole, and
\* "\x1b[31mhi\x1b[0m" has visible width 2
StripLeavesVisible ==
    Printed =>
        \A b \in 1..Len(last.all_lines) :
            LET inputs == StripInputs(filtered_snippets[b], last.args[5])
            IN  /\ Len(last.all_lines[b]) = Len(inputs)
                /\ \A k \in 1..Len(inputs) :
                       /\ last.all_lines[b][k] = Visible(inputs[k])
                       /\ ESC \notin Range(inputs[k])
                              => Len(last.all_lines[b][k]) = Len(inputs[k])
                       /\ inputs[k] = RedHi => Len(last.all_lines[b][k]) = 2

\* one output holds the example, two sequences that touch, and a sequence
\* that ends with a letter other than 'm'
StripWitness ==
    /\ Printed
    /\ Len(last.all_lines) = 2
    /\ \E k \in 1..Len(last.all_lines[1]) :
           /\ StripInputs(filtered_snippets[1], last.args[5])[k] = AdjacentCodes
           /\ last.all_lines[1][k] = <<"a">>
    /\ \E k \in 1..Len(last.all_lines[2]) :
           /\ StripInputs(filtered_snippets[2], last.args[5])[k] = RedHi
           /\ last.all_lines[2][k] = <<"h", "i">>
    /\ filtered_snippets[2].description # None

\* the number of elements of s that are in S
Count(s, S) == Cardinality({i \in 1..Len(s) : s[i] \in S})

\* the lines of a block from its top border to its bottom border; println of
\* the bottom border, which ends with "\n", leaves one more line that shows
\* nothing
Box(block) == Front(block)

\* max visible width over the label and code lines of the block, + 4
BlockWidth(snippet, summary) ==
    LET inputs == StripInputs(snippet, summary)
    IN  Max({Len(Visible(inputs[k])) : k \in 1..Len(inputs)}) + 4

IsBorder(ln) == Count(ln, {"BOX_H", "BOX_RULE"}) > 0

Blank(answer) == trim(answer) = <<>>

\* C23: after an edit, a field whose prompt was answered with a blank line
\* has the value it had before: tag, description and language alike
BlankKeepsField ==
    (EditDone /\ last.answers # None) =>
        LET answers == last.answers[1]
            old == before.snippets[last.index]
            new == Last(file.snippets)
        IN  /\ Blank(answers.new_tag) => new.tag = old.tag
            /\ Blank(answers.new_description)
                   => new.description = old.description
            /\ Blank(answers.new_language) => new.language = old.language

(***************************************************************************)
(* Two captures side by side                                               *)
(***************************************************************************)
BothDone == procs # <<>> /\ \A p \in Procs : procs[p].pc = "done"
Captured(p) == procs[p].new_snippet[1]
Succeeded(p) == procs[p].err = "none"

\* C24: when two captures on one store have both ended, the file holds what
\* the last writer had loaded plus its own snippet (last whole-file rewrite
\* wins): the snippets stored before are all there, and of the two captured
\* snippets one may be missing; run one after the other, the two captures
\* are both stored, under different IDs
RaceLosesAtMostOne ==
    BothDone =>
        /\ \E p \in Procs : Succeeded(p)
        /\ file.kind = "ok" =>
               /\ \E p \in Procs :
                      /\ Succeeded(p)
                      /\ file.snippets
                             = Append(procs[p].loaded.snippets, Captured(p))
               /\ SubSeq(file.snippets, 1, Len(before.snippets))
                      = before.snippets
               /\ Len(file.snippets) - Len(before.snippets) \in {1, 2}
        /\ file.kind # "ok" => \E p \in Procs : procs[p].overwritten
        /\ (\A p \in Procs : procs[p].alone) =>
               /\ \A p \in Procs : Succeeded(p)
               /\ file.kind = "ok"
               /\ {Captured(1), Captured(2)} \subseteq Range(file.snippets)
               /\ Captured(1).id # Captured(2).id

\* the lost update: both captures reported success and were given the same
\* ID, and the collection stored at the end lacks the snippet of one
LostUpdate ==
    /\ BothDone
    /\ \A p \in Procs : Succeeded(p)
    /\ file.kind = "ok"
    /\ before.snippets # <<>>
    /\ Captured(1).id = Captured(2).id
    /\ Captured(1) \notin Range(file.snippets)
    /\ Captured(2) \in Range(file.snippets)
    /\ Len(file.snippets) = Len(before.snippets) + 1

(***************************************************************************)
(* Operations that only read                                               *)
(***************************************************************************)
ReadOnlyOps == {"view", "copy", "export"}

\* C25: view, copy and export leave DATA_FILE as it was when the invocation
\* began, whether they end with success, with an error or cancelled, and
\* while an export waits for its confirmation
ReadersKeepStore == last.op \in ReadOnlyOps => file = before

\* an export that wrote its files from a store that holds snippets
ExportedWitness ==
    /\ last.op = "export"
    /\ last.status = "ok"
    /\ pc = "idle"
    /\ files # {}
    /\ Len(file.snippets) = MaxLen

(***************************************************************************)
(* IDs over the history of the store                                       *)
(***************************************************************************)
\* a capture that succeeds right after a confirmed delete; `before` is the
\* file the delete found, `file` the file it left; the IDs were distinct
CaptureAfterDelete ==
    /\ last.op = "delete"
    /\ last.status = "ok"
    /\ pc = "idle"
    /\ last'.op = "capture"
    /\ last'.status = "ok"
    /\ Cardinality(IdSet(before.snippets)) = Len(before.snippets)
    /\ IdSet(file.snippets) # IdSet(before.snippets)

====
